---- MODULE Spec2Model ----
(***************************************************************************)
(* Duplicate detection engine of image-de-clutter                          *)
(* (src/src/image_processing/duplicate_detector.py).                       *)
(*                                                                         *)
(* One DuplicateDetectorThread.run is modelled statement group by          *)
(* statement group: generate_hashes, find_duplicates,                      *)
(* generate_cnn_features, find_cnn_duplicates and the tail of run that     *)
(* builds the statistics and emits the signals.  The user interface thread *)
(* is a second process whose only step is cancel_detection.  SpecRerun lets *)
(* the window start a second thread over the same files; SpecHamming,      *)
(* SpecSimilarity and SpecGroup use hamming_distance, compute_similarity    *)
(* and DuplicateGroup directly, without a thread.                          *)
(*                                                                         *)
(* Encodings.  A path is a positive integer.  A hex fingerprint is the     *)
(* sequence of its hex digits, most significant first; None, where a       *)
(* fingerprint or a feature vector is expected, is the empty sequence.     *)
(* A similarity is an integer number of thousandths (1000 is 1.0).         *)
(***************************************************************************)
EXTENDS Integers, Sequences, FiniteSets, TLC

\* ---------------------------------------------------------------- bounds
\* hash_size of PerceptualHasher.dhash (8 in the program, scaled down here).
HashSize == 2

\* Longest fingerprint, in hex digits, handed to hamming_distance directly.
MaxHexLen == 2

\* Most add_image calls made on one DuplicateGroup directly.
MaxAdds == 3

\* Number of image files thumbnails are asked for.
MaxThumbnailPaths == 3

\* Largest max_cache_size of a ThumbnailGenerator.
MaxCacheSize == 2

\* Last value of the clock that time.time() reads.
MaxTime == 4

\* Most requests a ThumbnailWorkerThread accepts.
MaxRequests == 3

\* Files given to a detector that is used for two calls.
MaxReusePaths == 2

\* Longest input path list of a run without feature matching.
MaxPaths == 4
\* Longest input path list of a run with feature matching.
MaxCnnPaths == 3

\* None for a fingerprint, a feature vector or a group under construction.
None == <<>>

\* What hash_func yields for a file: None for an unreadable file, else a
\* fingerprint of one hex digit (hash_size 2) or of two.
HashValues == {<<0>>, <<1>>, <<3>>, <<0, 0>>}
\* What extract_features yields for a file: None or a vector.
FeatureValues == {<<1, 0>>, <<3, 4>>}
\* The fingerprints of the files of a run with feature matching.
CnnRunHashValues == {<<0>>}
\* similarity_threshold values a detector is built with.
HashThresholds == {0, 1}
\* cnn_similarity_threshold values, in thousandths (0.85 is the default).
CnnThresholds == {800, 850}

\* ------------------------------------------------------- pure functions
\* 1.0 in thousandths.
SimScale == 1000

Range(s) == {s[k] : k \in 1..Len(s)}

RECURSIVE SeqSum(_)
SeqSum(s) == IF s = <<>> THEN 0 ELSE Head(s) + SeqSum(Tail(s))

\* int(hash, 16)
RECURSIVE HexToInt(_)
HexToInt(h) ==
    IF h = <<>> THEN 0 ELSE HexToInt(SubSeq(h, 1, Len(h) - 1)) * 16 + h[Len(h)]

\* Mutant of XorBitCount: the bits of a | b are counted instead of a ^ b.
RECURSIVE XorBitCount_Or(_, _)
XorBitCount_Or(a, b) ==
    IF a = 0 /\ b = 0 THEN 0
    ELSE (IF (a % 2) = 1 \/ (b % 2) = 1 THEN 1 ELSE 0)
         + XorBitCount_Or(a \div 2, b \div 2)

\* bin(a ^ b).count("1") for non-negative a, b
RECURSIVE XorBitCount(_, _)
XorBitCount(a, b) ==
    IF a = 0 /\ b = 0 THEN 0
    ELSE (IF (a % 2) # (b % 2) THEN 1 ELSE 0) + XorBitCount(a \div 2, b \div 2)

\* float("inf"), the distance of two fingerprints that cannot be compared:
\* a value no bit count takes, which DistanceWithin puts above every threshold.
Infinity == -1

hamming_distance(hash1, hash2) ==
    IF Len(hash1) # Len(hash2) THEN Infinity
    ELSE XorBitCount(HexToInt(hash1), HexToInt(hash2))

\* Mutant of DistanceWithin: the distance is compared as if the value for
\* incomparable fingerprints were an ordinary number.
DistanceWithin_NoSentinel(distance, threshold) == distance <= threshold

\* distance <= self.similarity_threshold
DistanceWithin(distance, threshold) ==
    IF distance = Infinity THEN FALSE ELSE distance <= threshold

\* ------------------------------------------------------------------ dhash
\* img.convert("L") of one pixel: the ITU-R 601-2 luma of <<red, green, blue>>.
Luminance(rgb) == (299 * rgb[1] + 587 * rgb[2] + 114 * rgb[3]) \div 1000

\* list(img.getdata()) after convert("L") and resize((hash_size + 1, hash_size))
\* of an image whose pixels all have the colour rgb: every resampled pixel is a
\* weighted mean of equal values.
SolidPixels(rgb, hash_size) ==
    [k \in 1..((hash_size + 1) * hash_size) |-> Luminance(rgb)]

\* hash_bits of dhash: row by row, whether a pixel is brighter than its right
\* neighbour.
HashBits(pixels, hash_size) ==
    [n \in 1..(hash_size * hash_size) |->
        LET row == (n - 1) \div hash_size
            col == (n - 1) % hash_size
            pixel_left == pixels[row * (hash_size + 1) + col + 1]
            pixel_right == pixels[row * (hash_size + 1) + col + 2]
        IN  IF pixel_left > pixel_right THEN 1 ELSE 0]

\* hash_int |= 1 << i for every set bit i (bits counted from 0).
RECURSIVE HashInt(_)
HashInt(hash_bits) ==
    IF hash_bits = <<>> THEN 0 ELSE Head(hash_bits) + 2 * HashInt(Tail(hash_bits))

\* format(n, "x")
RECURSIVE Hex(_)
Hex(n) == IF n < 16 THEN <<n>> ELSE Append(Hex(n \div 16), n % 16)

\* format(n, f"0{width}x"): zero-padded on the left up to width digits.
ZeroPaddedHex(n, width) ==
    LET digits == Hex(n)
    IN  IF Len(digits) >= width THEN digits
        ELSE [k \in 1..(width - Len(digits)) |-> 0] \o digits

\* PerceptualHasher.dhash on the resized grayscale pixels of a readable image.
dhash(pixels, hash_size) ==
    LET hash_bits == HashBits(pixels, hash_size)
    IN  ZeroPaddedHex(HashInt(hash_bits), Len(hash_bits) \div 4)

ISqrt(n) == CHOOSE r \in 0..n : r * r <= n /\ n < (r + 1) * (r + 1)

Dot(u, v) == SeqSum([k \in 1..Len(u) |-> u[k] * v[k]])

\* The row norm sklearn's normalize divides by: a zero norm is replaced by 1.
RowNorm(v) == LET n == ISqrt(Dot(v, v)) IN IF n = 0 THEN 1 ELSE n

\* cosine_similarity(features1, features2)[0, 0], in thousandths
cosine_similarity(u, v) == (Dot(u, v) * SimScale) \div (RowNorm(u) * RowNorm(v))

\* CNNFeatureExtractor.compute_similarity: a shape mismatch raises inside
\* sklearn and is caught, giving 0.0.
compute_similarity(features1, features2) ==
    IF Len(features1) # Len(features2) THEN 0
    ELSE (cosine_similarity(features1, features2) + SimScale) \div 2

_get_confidence_level(similarity_score) ==
    IF similarity_score >= 950 THEN "high"
    ELSE IF similarity_score >= 850 THEN "medium"
    ELSE "low"

\* DuplicateGroup(group_id, algorithm, similarity_score)
DuplicateGroup(group_id, alg, similarity_score) ==
    [group_id |-> group_id,
     algorithm |-> alg,
     similarity_score |-> similarity_score,
     images |-> <<>>,
     representative_hash |-> None,
     confidence_level |-> _get_confidence_level(similarity_score)]

\* Mutant of add_image: the new entry is put in front of the list.
add_image_InFront(group, image_info) ==
    [group EXCEPT
        !.images = <<image_info>> \o @,
        !.representative_hash =
            IF @ = None THEN image_info.hash ELSE @]

\* DuplicateGroup.add_image
add_image(group, image_info) ==
    [group EXCEPT
        !.images = Append(@, image_info),
        !.representative_hash =
            IF @ = None THEN image_info.hash ELSE @]

get_size(group) == Len(group.images)

\* DuplicateDetector._get_image_info, without the file metadata
_get_image_info(image_path, image_hash) ==
    [path |-> image_path, hash |-> image_hash]

\* The image entry of a feature-based group.
CnnImageInfo(image_path, features, similarity) ==
    [path |-> image_path, hash |-> None,
     cnn_features |-> features, similarity_to_group |-> similarity]

\* list(d.keys()) of a dict held as a sequence of <<key, value>> entries
Keys(d) == [k \in 1..Len(d) |-> d[k][1]]
Value(d, k) == d[k][2]

\* ------------------------------------------------------------------ state
VARIABLES
    image_paths,              \* DuplicateDetectorThread.image_paths
    file_hash,                \* file system: path -> what hash_func returns
    file_features,            \* file system: path -> what extract_features returns
    algorithm,                \* DuplicateDetector.algorithm
    similarity_threshold,     \* DuplicateDetector.similarity_threshold
    use_cnn,                  \* DuplicateDetector.use_cnn
    cnn_similarity_threshold, \* DuplicateDetector.cnn_similarity_threshold
    _cancelled,               \* DuplicateDetector._cancelled
    pc,                       \* where run is
    hashes,                   \* detect_duplicates: hashes
    cnn_features,             \* detect_duplicates: cnn_features
    all_duplicate_groups,     \* detect_duplicates: all_duplicate_groups
    hash_groups,              \* detect_duplicates: hash_groups
    cnn_groups,               \* detect_duplicates: cnn_groups
    i, j,                     \* loop indices of the running function (from 1)
    assigned_images,          \* find_*: assigned_images
    duplicate_groups,         \* find_*: duplicate_groups
    current_group,            \* find_*: current_group
    group_similarities,       \* find_cnn_duplicates: group_similarities
    signals,                  \* the signals run has emitted, in order
    cancelled_at,             \* history: pc when cancel_detection set the flag
    cnn_attempted,            \* history: paths handed to extract_features
    phase2_raised,            \* history: phase 2 raised an unexpected error
    run_number,               \* which DuplicateDetectorThread of the window runs
    previous_groups,          \* what the previous thread's detection_completed carried
    hamming_call,             \* a direct call of PerceptualHasher.hamming_distance
    similarity_call,          \* a direct call of CNNFeatureExtractor.compute_similarity
    lone_group,               \* a DuplicateGroup driven through add_image directly
    max_cache_size,           \* ThumbnailGenerator.max_cache_size
    memory_cache,             \* ThumbnailGenerator.memory_cache
    cache_access_times,       \* ThumbnailGenerator.cache_access_times
    cache_files,              \* cache keys with a .png file in cache_dir
    now,                      \* the last value time.time() returned
    readable_images,          \* file system: the image paths that can be opened
    request_queue,            \* ThumbnailWorkerThread.request_queue
    is_running,               \* ThumbnailWorkerThread.is_running
    worker_pc,                \* where the worker thread is
    current_request,          \* ThumbnailWorkerThread.run: image_path, size
    thumbnail_signals,        \* thumbnail_ready / thumbnail_error emitted, in order
    accepted_requests         \* history: paths request_thumbnail has queued

config == <<image_paths, file_hash, file_features, algorithm,
            similarity_threshold, use_cnn, cnn_similarity_threshold>>
locals == <<i, j, assigned_images, duplicate_groups, current_group,
            group_similarities>>
results == <<all_duplicate_groups, hash_groups, cnn_groups>>
\* What a step of run or cancel_detection never touches.
thumbnail_cache == <<max_cache_size, memory_cache, cache_access_times,
                     cache_files, now, readable_images>>
thumbnail_worker == <<request_queue, is_running, worker_pc, current_request,
                      thumbnail_signals, accepted_requests>>
thumbnails == <<thumbnail_cache, thumbnail_worker>>
outside_run == <<run_number, previous_groups, hamming_call, similarity_call,
                 lone_group, thumbnails>>
vars == <<config, _cancelled, pc, hashes, cnn_features, results,
          locals, signals, cancelled_at, cnn_attempted, phase2_raised,
          outside_run>>

\* No component is exercised on its own.
\* No thumbnail generator exists.
NoGenerator ==
    /\ max_cache_size = 1
    /\ memory_cache = <<>>
    /\ cache_access_times = <<>>
    /\ cache_files = {}
    /\ now = 0
    /\ readable_images = {}

\* No thumbnail worker exists.
NoWorker ==
    /\ request_queue = <<>>
    /\ is_running = FALSE
    /\ worker_pc = "none"
    /\ current_request = None
    /\ thumbnail_signals = <<>>
    /\ accepted_requests = {}

NoThumbnails == NoGenerator /\ NoWorker

NoDirectCalls ==
    /\ NoThumbnails
    /\ hamming_call = None
    /\ similarity_call = None
    /\ lone_group = None

\* A run without feature matching over up to MaxPaths files, or a run with
\* feature matching over up to MaxCnnPaths files.
Init ==
    /\ algorithm = "dhash"
    /\ use_cnn \in BOOLEAN
    /\ \E n \in 0..(IF use_cnn THEN MaxCnnPaths ELSE MaxPaths) :
        /\ image_paths = [k \in 1..n |-> k]
        /\ file_hash \in
            [1..n -> {None} \cup (IF use_cnn THEN CnnRunHashValues ELSE HashValues)]
        /\ file_features \in
            [1..n -> IF use_cnn THEN {None} \cup FeatureValues ELSE {None}]
    /\ similarity_threshold \in HashThresholds
    /\ cnn_similarity_threshold \in
        (IF use_cnn THEN CnnThresholds ELSE {850})
    /\ _cancelled = FALSE
    /\ pc = "idle"
    /\ hashes = <<>>
    /\ cnn_features = <<>>
    /\ all_duplicate_groups = <<>>
    /\ hash_groups = <<>>
    /\ cnn_groups = <<>>
    /\ i = 0
    /\ j = 0
    /\ assigned_images = {}
    /\ duplicate_groups = <<>>
    /\ current_group = None
    /\ group_similarities = <<>>
    /\ signals = <<>>
    /\ cancelled_at = "never"
    /\ cnn_attempted = <<>>
    /\ phase2_raised = FALSE
    /\ run_number = 1
    /\ previous_groups = <<>>
    /\ NoDirectCalls

\* ------------------------------------------------------- cancel_detection
\* DuplicateDetector.cancel_detection, called from the user interface thread
\* at any point up to the end of run.
cancel_detection ==
    /\ pc # "done"
    /\ ~_cancelled
    /\ _cancelled' = TRUE
    /\ cancelled_at' = pc
    /\ UNCHANGED <<config, outside_run, pc, hashes, cnn_features, results,
                   locals, signals, cnn_attempted, phase2_raised>>

\* ------------------------------------------------------------------- run
\* Mutant of RunStart: the run clears the cancellation flag as it starts.
RunStart_Reset ==
    /\ pc = "idle"
    /\ signals' = Append(signals, [signal |-> "progress_update", percent |-> 0])
    /\ all_duplicate_groups' = <<>>
    /\ hashes' = <<>>
    /\ i' = 1
    /\ pc' = "generate_hashes"
    /\ _cancelled' = FALSE
    /\ UNCHANGED <<config, outside_run, cnn_features, hash_groups, cnn_groups, j,
                   assigned_images, duplicate_groups, current_group,
                   group_similarities, cancelled_at, cnn_attempted,
                   phase2_raised>>

\* run up to the first loop head of generate_hashes.
RunStart ==
    /\ pc = "idle"
    /\ signals' = Append(signals, [signal |-> "progress_update", percent |-> 0])
    /\ all_duplicate_groups' = <<>>
    /\ hashes' = <<>>
    /\ i' = 1
    /\ pc' = "generate_hashes"
    /\ UNCHANGED <<config, outside_run, _cancelled, cnn_features, hash_groups, cnn_groups, j, assigned_images,
                   duplicate_groups, current_group, group_similarities,
                   cancelled_at, cnn_attempted, phase2_raised>>

\* hash_func(image_path): None when the file cannot be hashed.
hash_func(image_path) == file_hash[image_path]

\* Mutant of HashesWith: the result of hash_func is stored untested.
HashesWith_KeepFailed(mapping, image_path, image_hash) ==
    Append(mapping, <<image_path, image_hash>>)

\* hashes after hash_func gave image_hash for image_path: `if image_hash`
\* stores it, and a failed file is only logged.
HashesWith(mapping, image_path, image_hash) ==
    IF image_hash # None
    THEN Append(mapping, <<image_path, image_hash>>)
    ELSE mapping

\* Mutant of GenerateHashesStep: the loop of generate_hashes does not look at
\* the cancellation flag.
GenerateHashesStep_NoFlagCheck ==
    /\ pc = "generate_hashes"
    /\ i <= Len(image_paths)
    /\ LET image_path == image_paths[i]
           image_hash == hash_func(image_path)
       IN  hashes' = HashesWith(hashes, image_path, image_hash)
    /\ i' = i + 1
    /\ UNCHANGED <<config, outside_run, _cancelled, pc, cnn_features, results,
                   j, assigned_images, duplicate_groups, current_group,
                   group_similarities, signals, cancelled_at, cnn_attempted,
                   phase2_raised>>

\* One iteration of the loop of generate_hashes.
GenerateHashesStep ==
    /\ pc = "generate_hashes"
    /\ i <= Len(image_paths)
    /\ ~_cancelled
    /\ LET image_path == image_paths[i]
           image_hash == hash_func(image_path)
       IN  hashes' = HashesWith(hashes, image_path, image_hash)
    /\ i' = i + 1
    /\ UNCHANGED <<config, outside_run, _cancelled, pc, cnn_features, results,
                   j, assigned_images, duplicate_groups, current_group,
                   group_similarities, signals, cancelled_at, cnn_attempted,
                   phase2_raised>>

\* The loop of generate_hashes ends (exhausted, or the flag is seen) and
\* generate_hashes returns to detect_duplicates.
GenerateHashesReturn ==
    /\ pc = "generate_hashes"
    /\ (i > Len(image_paths) \/ _cancelled)
    /\ pc' = "phase1_group"
    /\ UNCHANGED <<config, outside_run, _cancelled, hashes, cnn_features,
                   results, locals, signals, cancelled_at,
                   cnn_attempted, phase2_raised>>

\* detect_duplicates: `if hashes` calls find_duplicates, which runs up to
\* the head of its outer loop.
Phase1Group ==
    /\ pc = "phase1_group"
    /\ IF hashes # <<>>
       THEN /\ pc' = "find_outer"
            /\ assigned_images' = {}
            /\ duplicate_groups' = <<>>
            /\ i' = 1
       ELSE /\ pc' = "phase2"
            /\ UNCHANGED <<assigned_images, duplicate_groups, i>>
    /\ UNCHANGED <<config, outside_run, _cancelled, hashes, cnn_features,
                   results, j, current_group, group_similarities,
                   signals, cancelled_at, cnn_attempted, phase2_raised>>

\* ------------------------------------------------------- find_duplicates
\* Mutant of AlreadyAssigned: the assigned set is never consulted.
AlreadyAssigned_Never(path, assigned) == FALSE

\* `path in assigned_images`
AlreadyAssigned(path, assigned) == path \in assigned

\* Mutant of FindDuplicatesSeed: the inner loop starts two places after the
\* seed, so a seed is never compared with its immediate successor.
FindDuplicatesSeed_SkipsNeighbour ==
    /\ pc = "find_outer"
    /\ i <= Len(hashes)
    /\ ~_cancelled
    /\ ~AlreadyAssigned(Keys(hashes)[i], assigned_images)
    /\ current_group' = None
    /\ j' = i + 2
    /\ pc' = "find_inner"
    /\ UNCHANGED <<config, outside_run, _cancelled, hashes, cnn_features,
                   results, i, assigned_images, duplicate_groups,
                   group_similarities, signals, cancelled_at, cnn_attempted,
                   phase2_raised>>

\* The head of the outer loop of find_duplicates for one path1 that is not
\* skipped: hash1 is read and the inner loop is set up.
FindDuplicatesSeed ==
    /\ pc = "find_outer"
    /\ i <= Len(hashes)
    /\ ~_cancelled
    /\ ~AlreadyAssigned(Keys(hashes)[i], assigned_images)
    /\ current_group' = None
    /\ j' = i + 1
    /\ pc' = "find_inner"
    /\ UNCHANGED <<config, outside_run, _cancelled, hashes, cnn_features,
                   results, i, assigned_images, duplicate_groups,
                   group_similarities, signals, cancelled_at, cnn_attempted,
                   phase2_raised>>

\* The head of the outer loop for a path1 that is already assigned.
FindDuplicatesSkipSeed ==
    /\ pc = "find_outer"
    /\ i <= Len(hashes)
    /\ ~_cancelled
    /\ AlreadyAssigned(Keys(hashes)[i], assigned_images)
    /\ i' = i + 1
    /\ UNCHANGED <<config, outside_run, _cancelled, pc, hashes, cnn_features,
                   results, j, assigned_images, duplicate_groups,
                   current_group, group_similarities, signals, cancelled_at,
                   cnn_attempted, phase2_raised>>

\* The group after path2 matched path1: created with path1 on the first match.
HashGroupWith(group, groups, path1, hash1, path2, hash2) ==
    LET started ==
            IF group = None
            THEN add_image(DuplicateGroup(<<"group_", Len(groups)>>, algorithm, SimScale),
                           _get_image_info(path1, hash1))
            ELSE group
    IN  add_image(started, _get_image_info(path2, hash2))

\* Mutant of FindDuplicatesCompare: a candidate is compared with the member
\* added last instead of the seed.
FindDuplicatesCompare_AgainstLastMember ==
    /\ pc = "find_inner"
    /\ j <= Len(hashes)
    /\ ~_cancelled
    /\ LET path1 == Keys(hashes)[i]
           hash1 == Value(hashes, i)
           path2 == Keys(hashes)[j]
           hash2 == Value(hashes, j)
           last_hash == IF current_group = None THEN hash1
                        ELSE current_group.images[get_size(current_group)].hash
           distance == hamming_distance(last_hash, hash2)
       IN  IF ~AlreadyAssigned(path2, assigned_images)
              /\ DistanceWithin(distance, similarity_threshold)
           THEN /\ current_group' =
                      HashGroupWith(current_group, duplicate_groups,
                                    path1, hash1, path2, hash2)
                /\ assigned_images' = assigned_images \cup {path1, path2}
           ELSE UNCHANGED <<current_group, assigned_images>>
    /\ j' = j + 1
    /\ UNCHANGED <<config, outside_run, _cancelled, pc, hashes, cnn_features,
                   results, i, duplicate_groups,
                   group_similarities, signals, cancelled_at, cnn_attempted,
                   phase2_raised>>

\* Mutant of FindDuplicatesCompare: a candidate must be within the threshold
\* of every member the group already has, not only of the seed.
FindDuplicatesCompare_Clique ==
    /\ pc = "find_inner"
    /\ j <= Len(hashes)
    /\ ~_cancelled
    /\ LET path1 == Keys(hashes)[i]
           hash1 == Value(hashes, i)
           path2 == Keys(hashes)[j]
           hash2 == Value(hashes, j)
           members == IF current_group = None THEN {hash1}
                      ELSE {current_group.images[k].hash :
                              k \in 1..get_size(current_group)}
       IN  IF ~AlreadyAssigned(path2, assigned_images)
              /\ \A member \in members :
                    DistanceWithin(hamming_distance(member, hash2),
                                   similarity_threshold)
           THEN /\ current_group' =
                      HashGroupWith(current_group, duplicate_groups,
                                    path1, hash1, path2, hash2)
                /\ assigned_images' = assigned_images \cup {path1, path2}
           ELSE UNCHANGED <<current_group, assigned_images>>
    /\ j' = j + 1
    /\ UNCHANGED <<config, outside_run, _cancelled, pc, hashes, cnn_features,
                   results, i, duplicate_groups,
                   group_similarities, signals, cancelled_at, cnn_attempted,
                   phase2_raised>>

\* One iteration of the inner loop of find_duplicates.
FindDuplicatesCompare ==
    /\ pc = "find_inner"
    /\ j <= Len(hashes)
    /\ ~_cancelled
    /\ LET path1 == Keys(hashes)[i]
           hash1 == Value(hashes, i)
           path2 == Keys(hashes)[j]
           hash2 == Value(hashes, j)
           distance == hamming_distance(hash1, hash2)
       IN  IF ~AlreadyAssigned(path2, assigned_images)
              /\ DistanceWithin(distance, similarity_threshold)
           THEN /\ current_group' =
                      HashGroupWith(current_group, duplicate_groups,
                                    path1, hash1, path2, hash2)
                /\ assigned_images' = assigned_images \cup {path1, path2}
           ELSE UNCHANGED <<current_group, assigned_images>>
    /\ j' = j + 1
    /\ UNCHANGED <<config, outside_run, _cancelled, pc, hashes, cnn_features,
                   results, i, duplicate_groups,
                   group_similarities, signals, cancelled_at, cnn_attempted,
                   phase2_raised>>

\* `if current_group and current_group.get_size() > 1`
KeepGroup(group) == group # None /\ get_size(group) > 1

\* Mutant of FindDuplicatesAppend: the group of a seed is created with the
\* seed and appended whether or not anything matched.
FindDuplicatesAppend_Eager ==
    /\ pc = "find_inner"
    /\ (j > Len(hashes) \/ _cancelled)
    /\ duplicate_groups' =
          Append(duplicate_groups,
                 IF current_group # None THEN current_group
                 ELSE add_image(DuplicateGroup(<<"group_", Len(duplicate_groups)>>,
                                               algorithm, SimScale),
                                _get_image_info(Keys(hashes)[i], Value(hashes, i))))
    /\ i' = i + 1
    /\ pc' = "find_outer"
    /\ UNCHANGED <<config, outside_run, _cancelled, hashes, cnn_features,
                   results, j, assigned_images, current_group,
                   group_similarities, signals, cancelled_at, cnn_attempted,
                   phase2_raised>>

\* The inner loop ends (exhausted, or the flag is seen and it breaks); the
\* group is appended when it has duplicates, and the outer loop moves on.
FindDuplicatesAppend ==
    /\ pc = "find_inner"
    /\ (j > Len(hashes) \/ _cancelled)
    /\ duplicate_groups' =
          IF KeepGroup(current_group)
          THEN Append(duplicate_groups, current_group)
          ELSE duplicate_groups
    /\ i' = i + 1
    /\ pc' = "find_outer"
    /\ UNCHANGED <<config, outside_run, _cancelled, hashes, cnn_features,
                   results, j, assigned_images, current_group,
                   group_similarities, signals, cancelled_at, cnn_attempted,
                   phase2_raised>>

\* The outer loop ends (exhausted, or the flag is seen and it breaks);
\* find_duplicates returns and detect_duplicates extends its list.
FindDuplicatesReturn ==
    /\ pc = "find_outer"
    /\ (i > Len(hashes) \/ _cancelled)
    /\ hash_groups' = duplicate_groups
    /\ all_duplicate_groups' = all_duplicate_groups \o duplicate_groups
    /\ pc' = "phase2"
    /\ UNCHANGED <<cnn_groups, config, outside_run, _cancelled, hashes, cnn_features, locals, signals,
                   cancelled_at, cnn_attempted, phase2_raised>>

\* ---------------------------------------------------------------- phase 2
\* detect_duplicates: `if self.use_cnn` calls generate_cnn_features, which
\* runs up to the head of its loop; otherwise detect_duplicates returns.
Phase2 ==
    /\ pc = "phase2"
    /\ IF use_cnn
       THEN /\ pc' = "generate_cnn_features"
            /\ cnn_features' = <<>>
            /\ i' = 1
       ELSE /\ pc' = "finalize"
            /\ UNCHANGED <<cnn_features, i>>
    /\ UNCHANGED <<config, outside_run, _cancelled, hashes, results, j,
                   assigned_images, duplicate_groups, current_group,
                   group_similarities, signals, cancelled_at, cnn_attempted,
                   phase2_raised>>

\* Mutant of extract_features: the patches are sampled without a fixed seed, so
\* the vector of a file differs from one thread's run to the next.
extract_features_Unseeded(image_path) ==
    LET features == file_features[image_path]
    IN  IF features # None /\ run_number = 2 /\ image_path % 2 = 1
        THEN <<features[2], features[1]>>
        ELSE features

\* self.cnn_extractor.extract_features(image_path): None when the file
\* cannot be read.
extract_features(image_path) == file_features[image_path]

\* Mutant of CnnInputPaths: phase 2 looks only at the paths phase 1 hashed.
CnnInputPaths_HashedOnly == Keys(hashes)

\* The paths generate_cnn_features iterates over.
CnnInputPaths == image_paths

\* One iteration of the loop of generate_cnn_features.
GenerateCnnFeaturesStep ==
    /\ pc = "generate_cnn_features"
    /\ i <= Len(CnnInputPaths)
    /\ ~_cancelled
    /\ LET image_path == CnnInputPaths[i]
           feature_vector == extract_features(image_path)
       IN  /\ cnn_features' = IF feature_vector # None
                              THEN Append(cnn_features, <<image_path, feature_vector>>)
                              ELSE cnn_features
           /\ cnn_attempted' = Append(cnn_attempted, image_path)
    /\ i' = i + 1
    /\ UNCHANGED <<config, outside_run, _cancelled, pc, hashes, results, j,
                   assigned_images, duplicate_groups, current_group,
                   group_similarities, signals, cancelled_at, phase2_raised>>

\* The loop of generate_cnn_features ends (exhausted, or the flag is seen)
\* and generate_cnn_features returns to detect_duplicates.
GenerateCnnFeaturesReturn ==
    /\ pc = "generate_cnn_features"
    /\ (i > Len(CnnInputPaths) \/ _cancelled)
    /\ pc' = "phase2_group"
    /\ UNCHANGED <<config, outside_run, _cancelled, hashes, cnn_features,
                   results, locals, signals, cancelled_at,
                   cnn_attempted, phase2_raised>>

\* detect_duplicates: `if cnn_features` calls find_cnn_duplicates, which
\* runs up to the head of its outer loop; otherwise detect_duplicates returns.
Phase2Group ==
    /\ pc = "phase2_group"
    /\ IF cnn_features # <<>>
       THEN /\ pc' = "cnn_outer"
            /\ assigned_images' = {}
            /\ duplicate_groups' = <<>>
            /\ i' = 1
       ELSE /\ pc' = "finalize"
            /\ UNCHANGED <<assigned_images, duplicate_groups, i>>
    /\ UNCHANGED <<config, outside_run, _cancelled, hashes, cnn_features,
                   results, j, current_group, group_similarities,
                   signals, cancelled_at, cnn_attempted, phase2_raised>>

\* --------------------------------------------------- find_cnn_duplicates
\* The head of the outer loop of find_cnn_duplicates for one path1 that is
\* not skipped.
FindCnnDuplicatesSeed ==
    /\ pc = "cnn_outer"
    /\ i <= Len(cnn_features)
    /\ ~_cancelled
    /\ ~AlreadyAssigned(Keys(cnn_features)[i], assigned_images)
    /\ current_group' = None
    /\ group_similarities' = <<>>
    /\ j' = i + 1
    /\ pc' = "cnn_inner"
    /\ UNCHANGED <<config, outside_run, _cancelled, hashes, cnn_features,
                   results, i, assigned_images, duplicate_groups,
                   signals, cancelled_at, cnn_attempted, phase2_raised>>

\* The head of the outer loop for a path1 that is already assigned.
FindCnnDuplicatesSkipSeed ==
    /\ pc = "cnn_outer"
    /\ i <= Len(cnn_features)
    /\ ~_cancelled
    /\ AlreadyAssigned(Keys(cnn_features)[i], assigned_images)
    /\ i' = i + 1
    /\ UNCHANGED <<config, outside_run, _cancelled, pc, hashes, cnn_features,
                   results, j, assigned_images, duplicate_groups,
                   current_group, group_similarities, signals, cancelled_at,
                   cnn_attempted, phase2_raised>>

\* Mutant of CnnGroupWith: the feature pass continues the numbering of the
\* hash pass.
CnnGroupWith_SharedCounter(group, groups, path1, features1, path2, features2, similarity) ==
    LET started ==
            IF group = None
            THEN add_image(DuplicateGroup(<<"cnn_group_", Len(hash_groups) + Len(groups)>>,
                                          "cnn", similarity),
                           CnnImageInfo(path1, features1, SimScale))
            ELSE group
    IN  add_image(started, CnnImageInfo(path2, features2, similarity))

\* The group after path2 matched path1: created with path1 on the first
\* match, with the first similarity as its score.
CnnGroupWith(group, groups, path1, features1, path2, features2, similarity) ==
    LET started ==
            IF group = None
            THEN add_image(DuplicateGroup(<<"cnn_group_", Len(groups)>>, "cnn", similarity),
                           CnnImageInfo(path1, features1, SimScale))
            ELSE group
    IN  add_image(started, CnnImageInfo(path2, features2, similarity))

\* One iteration of the inner loop of find_cnn_duplicates.
FindCnnDuplicatesCompare ==
    /\ pc = "cnn_inner"
    /\ j <= Len(cnn_features)
    /\ ~_cancelled
    /\ LET path1 == Keys(cnn_features)[i]
           features1 == Value(cnn_features, i)
           path2 == Keys(cnn_features)[j]
           features2 == Value(cnn_features, j)
           similarity == compute_similarity(features1, features2)
       IN  IF ~AlreadyAssigned(path2, assigned_images)
              /\ similarity >= cnn_similarity_threshold
           THEN /\ current_group' =
                      CnnGroupWith(current_group, duplicate_groups,
                                   path1, features1, path2, features2, similarity)
                /\ assigned_images' = assigned_images \cup {path1, path2}
                /\ group_similarities' = Append(group_similarities, similarity)
           ELSE UNCHANGED <<current_group, assigned_images, group_similarities>>
    /\ j' = j + 1
    /\ UNCHANGED <<config, outside_run, _cancelled, pc, hashes, cnn_features,
                   results, i, duplicate_groups, signals,
                   cancelled_at, cnn_attempted, phase2_raised>>

\* Mutant of WithAverageSimilarity: the score becomes the mean, the confidence
\* label stays the one the constructor derived from the first similarity.
WithAverageSimilarity_StaleLabel(group, similarities) ==
    IF similarities # <<>>
    THEN [group EXCEPT
             !.similarity_score = SeqSum(similarities) \div Len(similarities)]
    ELSE group

\* The group with its score and confidence set from the mean of the
\* similarities collected for it.
WithAverageSimilarity(group, similarities) ==
    IF similarities # <<>>
    THEN LET avg_similarity == SeqSum(similarities) \div Len(similarities)
         IN  [group EXCEPT
                 !.similarity_score = avg_similarity,
                 !.confidence_level = _get_confidence_level(avg_similarity)]
    ELSE group

\* The inner loop ends (exhausted, or the flag is seen and it breaks); the
\* group is appended when it has duplicates, and the outer loop moves on.
FindCnnDuplicatesAppend ==
    /\ pc = "cnn_inner"
    /\ (j > Len(cnn_features) \/ _cancelled)
    /\ duplicate_groups' =
          IF KeepGroup(current_group)
          THEN Append(duplicate_groups,
                      WithAverageSimilarity(current_group, group_similarities))
          ELSE duplicate_groups
    /\ i' = i + 1
    /\ pc' = "cnn_outer"
    /\ UNCHANGED <<config, outside_run, _cancelled, hashes, cnn_features,
                   results, j, assigned_images, current_group,
                   group_similarities, signals, cancelled_at, cnn_attempted,
                   phase2_raised>>

\* The outer loop ends (exhausted, or the flag is seen and it breaks);
\* find_cnn_duplicates returns and detect_duplicates extends its list and
\* returns.
FindCnnDuplicatesReturn ==
    /\ pc = "cnn_outer"
    /\ (i > Len(cnn_features) \/ _cancelled)
    /\ cnn_groups' = duplicate_groups
    /\ all_duplicate_groups' = all_duplicate_groups \o duplicate_groups
    /\ pc' = "finalize"
    /\ UNCHANGED <<hash_groups, config, outside_run, _cancelled, hashes, cnn_features, locals, signals,
                   cancelled_at, cnn_attempted, phase2_raised>>

\* Mutant of GroupsAfterPhase2Error: the groups the interrupted feature pass
\* had finished are kept.
GroupsAfterPhase2Error_KeepPartial(groups, partial) == groups \o partial

\* What detect_duplicates holds after `except Exception` caught an error
\* raised in phase 2.
GroupsAfterPhase2Error(groups, partial) == groups

\* An unexpected error is raised somewhere inside the try block of phase 2;
\* detect_duplicates catches it, logs it and returns.
Phase2Error ==
    /\ pc \in {"generate_cnn_features", "phase2_group", "cnn_outer", "cnn_inner"}
    /\ all_duplicate_groups' =
          GroupsAfterPhase2Error(all_duplicate_groups,
                                 IF pc \in {"cnn_outer", "cnn_inner"}
                                 THEN duplicate_groups ELSE <<>>)
    /\ phase2_raised' = TRUE
    /\ pc' = "finalize"
    /\ UNCHANGED <<hash_groups, cnn_groups, config, outside_run, _cancelled, hashes, cnn_features, locals, signals,
                   cancelled_at, cnn_attempted>>

\* ------------------------------------------------------------ end of run
\* sum(group.get_size() for group in duplicate_groups)
RECURSIVE TotalSize(_)
TotalSize(groups) ==
    IF groups = <<>> THEN 0 ELSE get_size(Head(groups)) + TotalSize(Tail(groups))

CountAlgorithm(groups, algs) ==
    Cardinality({k \in 1..Len(groups) : groups[k].algorithm \in algs})

\* The statistics dict of run, without detection_time.
Statistics(groups) ==
    [total_images_processed |-> Len(image_paths),
     total_groups_found |-> Len(groups),
     total_duplicate_images |-> TotalSize(groups),
     hash_groups_found |-> CountAlgorithm(groups, {"dhash", "ahash"}),
     cnn_groups_found |-> CountAlgorithm(groups, {"cnn"}),
     algorithm_used |-> algorithm,
     similarity_threshold |-> similarity_threshold,
     cnn_enabled |-> use_cnn,
     cnn_threshold |-> IF use_cnn THEN cnn_similarity_threshold ELSE -1]

\* Mutant of FinishSignals: a run that produced no hash at all ends with the
\* error signal.
FinishSignals_ErrorWithoutHashes(groups) ==
    IF hashes = <<>>
    THEN << [signal |-> "detection_error"] >>
    ELSE << [signal |-> "progress_update", percent |-> 90],
            [signal |-> "progress_update", percent |-> 100],
            [signal |-> "detection_completed", groups |-> groups,
             statistics |-> Statistics(groups)] >>

\* Mutant of FinishSignals: the "completed" progress is emitted before the
\* statistics are prepared, so that 90 follows 100.
FinishSignals_FinalProgressFirst(groups) ==
    << [signal |-> "progress_update", percent |-> 100],
       [signal |-> "progress_update", percent |-> 90],
       [signal |-> "detection_completed", groups |-> groups,
        statistics |-> Statistics(groups)] >>

\* Mutant of FinishSignals: the last progress update is emitted after
\* detection_completed.
FinishSignals_ProgressAfterCompleted(groups) ==
    << [signal |-> "progress_update", percent |-> 90],
       [signal |-> "detection_completed", groups |-> groups,
        statistics |-> Statistics(groups)],
       [signal |-> "progress_update", percent |-> 100] >>

\* The signals run emits once detect_duplicates has returned.
FinishSignals(groups) ==
    << [signal |-> "progress_update", percent |-> 90],
       [signal |-> "progress_update", percent |-> 100],
       [signal |-> "detection_completed", groups |-> groups,
        statistics |-> Statistics(groups)] >>

\* run after detect_duplicates has returned.
RunFinish ==
    /\ pc = "finalize"
    /\ signals' = signals \o FinishSignals(all_duplicate_groups)
    /\ pc' = "done"
    /\ UNCHANGED <<config, outside_run, _cancelled, hashes, cnn_features,
                   results, locals, cancelled_at, cnn_attempted,
                   phase2_raised>>

\* MainWindow starts another DuplicateDetectorThread over the same discovered
\* files with the same parameters, once the first one has delivered
\* detection_completed; the files are not modified in between.  Only a second
\* thread after a first run that was neither cancelled nor hit by an error in
\* phase 2 is explored.
RunAgain ==
    /\ pc = "done"
    /\ run_number = 1
    /\ cancelled_at = "never"
    /\ ~phase2_raised
    /\ run_number' = 2
    /\ previous_groups' = all_duplicate_groups
    /\ _cancelled' = FALSE
    /\ pc' = "idle"
    /\ hashes' = <<>>
    /\ cnn_features' = <<>>
    /\ all_duplicate_groups' = <<>>
    /\ hash_groups' = <<>>
    /\ cnn_groups' = <<>>
    /\ i' = 0
    /\ j' = 0
    /\ assigned_images' = {}
    /\ duplicate_groups' = <<>>
    /\ current_group' = None
    /\ group_similarities' = <<>>
    /\ signals' = <<>>
    /\ cancelled_at' = "never"
    /\ cnn_attempted' = <<>>
    /\ phase2_raised' = FALSE
    /\ UNCHANGED <<config, hamming_call, similarity_call, lone_group, thumbnails>>

Next ==
    \/ cancel_detection
    \/ RunStart
    \/ GenerateHashesStep
    \/ GenerateHashesReturn
    \/ Phase1Group
    \/ FindDuplicatesSeed
    \/ FindDuplicatesSkipSeed
    \/ FindDuplicatesCompare
    \/ FindDuplicatesAppend
    \/ FindDuplicatesReturn
    \/ Phase2
    \/ GenerateCnnFeaturesStep
    \/ GenerateCnnFeaturesReturn
    \/ Phase2Group
    \/ FindCnnDuplicatesSeed
    \/ FindCnnDuplicatesSkipSeed
    \/ FindCnnDuplicatesCompare
    \/ FindCnnDuplicatesAppend
    \/ FindCnnDuplicatesReturn
    \/ Phase2Error
    \/ RunFinish

Spec == Init /\ [][Next]_vars

\* One window that runs the detection once or twice over the same files.
NextRerun ==
    \/ Next
    \/ RunAgain

SpecRerun == Init /\ [][NextRerun]_vars

\* DuplicateDetector.reset, called from the user interface thread at any time:
\* no cancellation is pending afterwards.
reset ==
    /\ pc # "off"
    /\ _cancelled' = FALSE
    /\ cancelled_at' = "never"
    /\ UNCHANGED <<config, outside_run, pc, hashes, cnn_features, results,
                   locals, signals, cnn_attempted, phase2_raised>>

\* The thread is started once more after it has finished: run calls
\* detect_duplicates on the same detector, whose cancellation flag is as the
\* first call left it.  A flag that is set was set before this call began.
DetectAgain ==
    /\ pc = "done"
    /\ run_number = 1
    /\ run_number' = 2
    /\ previous_groups' = all_duplicate_groups
    /\ cancelled_at' = IF _cancelled THEN "idle" ELSE "never"
    /\ pc' = "idle"
    /\ hashes' = <<>>
    /\ cnn_features' = <<>>
    /\ all_duplicate_groups' = <<>>
    /\ hash_groups' = <<>>
    /\ cnn_groups' = <<>>
    /\ i' = 0
    /\ j' = 0
    /\ assigned_images' = {}
    /\ duplicate_groups' = <<>>
    /\ current_group' = None
    /\ group_similarities' = <<>>
    /\ signals' = <<>>
    /\ cnn_attempted' = <<>>
    /\ phase2_raised' = FALSE
    /\ UNCHANGED <<config, _cancelled, hamming_call, similarity_call,
                   lone_group, thumbnails>>

\* One detector used for two calls, cancelled and reset at any time.
NextReuse ==
    \/ Next
    \/ reset
    \/ DetectAgain

\* The detector that is used twice runs over at most MaxReusePaths files.
ReuseInit ==
    /\ Init
    /\ Len(image_paths) <= MaxReusePaths

SpecReuse == ReuseInit /\ [][NextReuse]_vars

\* The except branch of run: a statement of the try block raised an error that
\* nothing below caught.  It can be any statement after the first progress
\* update, up to the one before detection_completed.emit, so one or both of
\* the closing progress updates may have been emitted.
RunError ==
    /\ pc \notin {"idle", "done"}
    /\ \E emitted \in 0..2 :
         /\ emitted > 0 => pc = "finalize"
         /\ signals' = signals
              \o SubSeq(<< [signal |-> "progress_update", percent |-> 90],
                           [signal |-> "progress_update", percent |-> 100] >>,
                        1, emitted)
              \o << [signal |-> "detection_error"] >>
    /\ pc' = "done"
    /\ UNCHANGED <<config, outside_run, _cancelled, hashes, cnn_features,
                   results, locals, cancelled_at, cnn_attempted, phase2_raised>>

\* A run in which any statement may fail.
NextRunError ==
    \/ Next
    \/ RunError

SpecRunError == Init /\ [][NextRunError]_vars

\* ------------------------------------------- components used on their own
\* Everything a run owns.
run_state == <<config, _cancelled, pc, hashes, cnn_features, results, locals,
               signals, cancelled_at, cnn_attempted, phase2_raised, run_number,
               previous_groups>>

\* No thread exists: a hasher, an extractor or a group is used directly, as
\* the unit tests do.
NoRun ==
    /\ algorithm = "dhash"
    /\ use_cnn = FALSE
    /\ image_paths = <<>>
    /\ file_hash = <<>>
    /\ file_features = <<>>
    /\ similarity_threshold = 0
    /\ cnn_similarity_threshold = 850
    /\ _cancelled = FALSE
    /\ pc = "off"
    /\ hashes = <<>>
    /\ cnn_features = <<>>
    /\ all_duplicate_groups = <<>>
    /\ hash_groups = <<>>
    /\ cnn_groups = <<>>
    /\ i = 0
    /\ j = 0
    /\ assigned_images = {}
    /\ duplicate_groups = <<>>
    /\ current_group = None
    /\ group_similarities = <<>>
    /\ signals = <<>>
    /\ cancelled_at = "never"
    /\ cnn_attempted = <<>>
    /\ phase2_raised = FALSE
    /\ run_number = 1
    /\ previous_groups = <<>>

\* Hex digits the fingerprints of a direct call are made of.
HexDigits == {0, 1, 5, 8, 10, 15}

\* The fingerprints of up to MaxHexLen digits.
HexStrings == UNION {[1..n -> HexDigits] : n \in 1..MaxHexLen}

\* A caller is about to pass two fingerprints to hamming_distance.
HammingInit ==
    /\ NoRun
    /\ NoThumbnails
    /\ hamming_call \in {[hash1 |-> a, hash2 |-> b] : a, b \in HexStrings}
    /\ similarity_call = None
    /\ lone_group = None

\* PerceptualHasher.hamming_distance(hash1, hash2) returns.
HammingCall ==
    /\ pc = "off"
    /\ hamming_call # None
    /\ "distance" \notin DOMAIN hamming_call
    /\ hamming_call' =
         [hash1 |-> hamming_call.hash1, hash2 |-> hamming_call.hash2,
          distance |-> hamming_distance(hamming_call.hash1, hamming_call.hash2)]
    /\ UNCHANGED <<run_state, similarity_call, lone_group, thumbnails>>

SpecHamming == HammingInit /\ [][HammingCall]_vars

\* Feature vectors handed to compute_similarity directly: the all-zero vector
\* of a black image, unit and non-unit vectors, and one of another shape.
SimilarityVectors == {<<0, 0>>, <<1, 0>>, <<0, 1>>, <<3, 4>>, <<4, 3>>, <<1, 0, 0>>}

\* cnn_similarity_threshold values a detector may be constructed with.
SimilarityThresholds == {1, 400, 500, 501, 850, 1000}

\* A caller is about to compare two feature vectors against a threshold.
SimilarityInit ==
    /\ NoRun
    /\ NoThumbnails
    /\ hamming_call = None
    /\ similarity_call \in
         {[features1 |-> u, features2 |-> v, threshold |-> t] :
            u, v \in SimilarityVectors, t \in SimilarityThresholds}
    /\ lone_group = None

\* similarity = compute_similarity(features1, features2) returns and is
\* tested with similarity >= cnn_similarity_threshold.
SimilarityCall ==
    /\ pc = "off"
    /\ similarity_call # None
    /\ "similarity" \notin DOMAIN similarity_call
    /\ LET similarity == compute_similarity(similarity_call.features1,
                                            similarity_call.features2)
       IN  similarity_call' =
             [features1 |-> similarity_call.features1,
              features2 |-> similarity_call.features2,
              threshold |-> similarity_call.threshold,
              similarity |-> similarity,
              match |-> similarity >= similarity_call.threshold]
    /\ UNCHANGED <<run_state, hamming_call, lone_group, thumbnails>>

SpecSimilarity == SimilarityInit /\ [][SimilarityCall]_vars

\* The image entries add_image is handed for the given path: what
\* find_duplicates builds, what find_cnn_duplicates builds, and an entry
\* without a hash.
ImageInfos(path) ==
    {_get_image_info(path, image_hash) : image_hash \in HashValues \cup {None}}
    \cup {CnnImageInfo(path, features, SimScale) : features \in FeatureValues}

\* A group has just been constructed, as find_duplicates or
\* find_cnn_duplicates constructs it.
GroupInit ==
    /\ NoRun
    /\ NoThumbnails
    /\ hamming_call = None
    /\ similarity_call = None
    /\ lone_group \in {DuplicateGroup(<<"group_", 0>>, "dhash", SimScale),
                       DuplicateGroup(<<"cnn_group_", 0>>, "cnn", SimScale)}

\* lone_group.add_image(image_info)
AddImage ==
    /\ pc = "off"
    /\ lone_group # None
    /\ get_size(lone_group) < MaxAdds
    /\ \E image_info \in ImageInfos(get_size(lone_group) + 1) :
         lone_group' = add_image(lone_group, image_info)
    /\ UNCHANGED <<run_state, hamming_call, similarity_call, thumbnails>>

SpecGroup == GroupInit /\ [][AddImage]_vars

\* ----------------------------------------------------- ThumbnailGenerator
ThumbnailPaths == 1..MaxThumbnailPaths

\* get_cache_key(image_path, size) for the one size in use and files that are
\* not modified: the md5 digest of a string that differs from path to path.
get_cache_key(image_path) == <<"md5", image_path>>

\* key in d, d[key] = value and del d[key] for a dict held as a sequence of
\* <<key, value>> entries in insertion order.
DictHas(d, key) == \E k \in 1..Len(d) : d[k][1] = key
DictSet(d, key, value) ==
    IF DictHas(d, key)
    THEN [k \in 1..Len(d) |-> IF d[k][1] = key THEN <<key, value>> ELSE d[k]]
    ELSE Append(d, <<key, value>>)
DictDel(d, key) == SelectSeq(d, LAMBDA entry : entry[1] # key)

\* Mutant of OldestKey: the entry inserted first is taken, whatever its access
\* time.
OldestKey_FirstInserted(times) == times[1][1]

\* min(cache_access_times.keys(), key=lambda k: cache_access_times[k]): the
\* first key, in insertion order, with the smallest access time.
OldestKey(times) ==
    LET least == CHOOSE k \in 1..Len(times) :
                    /\ \A k2 \in 1..Len(times) : times[k][2] <= times[k2][2]
                    /\ \A k2 \in 1..(k - 1) : times[k2][2] > times[k][2]
    IN  times[least][1]

\* The while loop of _add_to_memory_cache: <<memory_cache, cache_access_times>>
\* once there is room for one more entry.
RECURSIVE EvictOldest(_, _)
EvictOldest(cache, times) ==
    IF Len(cache) >= max_cache_size
    THEN LET oldest_key == OldestKey(times)
         IN  EvictOldest(DictDel(cache, oldest_key), DictDel(times, oldest_key))
    ELSE <<cache, times>>

\* ThumbnailGenerator._add_to_memory_cache(cache_key, pixmap) at time t; the
\* pixmap is named by its cache key.
_add_to_memory_cache(cache, times, cache_key, t) ==
    LET room == EvictOldest(cache, times)
    IN  <<DictSet(room[1], cache_key, cache_key), DictSet(room[2], cache_key, t)>>

\* ThumbnailGenerator.generate_thumbnail(image_path, size) at time t: what it
\* leaves in memory_cache, cache_access_times and cache_dir, and what it
\* returns (None when the image cannot be opened).
generate_thumbnail(image_path, t) ==
    LET cache_key == get_cache_key(image_path)
        added == _add_to_memory_cache(memory_cache, cache_access_times, cache_key, t)
    IN  IF DictHas(memory_cache, cache_key)
        THEN [memory_cache |-> memory_cache,
              cache_access_times |-> DictSet(cache_access_times, cache_key, t),
              cache_files |-> cache_files,
              thumbnail |-> cache_key]
        ELSE IF cache_key \in cache_files
        THEN [memory_cache |-> added[1], cache_access_times |-> added[2],
              cache_files |-> cache_files, thumbnail |-> cache_key]
        ELSE IF image_path \in readable_images
        THEN [memory_cache |-> added[1], cache_access_times |-> added[2],
              cache_files |-> cache_files \cup {cache_key},
              thumbnail |-> cache_key]
        ELSE [memory_cache |-> memory_cache,
              cache_access_times |-> cache_access_times,
              cache_files |-> cache_files, thumbnail |-> None]

\* ThumbnailGenerator(max_cache_size=...) over an empty cache directory.
GeneratorInit ==
    /\ NoRun
    /\ hamming_call = None
    /\ similarity_call = None
    /\ lone_group = None
    /\ NoWorker
    /\ max_cache_size \in 1..MaxCacheSize
    /\ memory_cache = <<>>
    /\ cache_access_times = <<>>
    /\ cache_files = {}
    /\ now = 0
    /\ readable_images \in SUBSET ThumbnailPaths

\* One call of generate_thumbnail from the thread that owns the generator;
\* the clock may or may not have advanced since the last call.
GenerateThumbnail ==
    /\ pc = "off"
    /\ worker_pc = "none"
    /\ \E image_path \in ThumbnailPaths, t \in {now, now + 1} :
         /\ t <= MaxTime
         /\ now' = t
         /\ LET after == generate_thumbnail(image_path, t)
            IN  /\ memory_cache' = after.memory_cache
                /\ cache_access_times' = after.cache_access_times
                /\ cache_files' = after.cache_files
    /\ UNCHANGED <<run_state, hamming_call, similarity_call, lone_group,
                   max_cache_size, readable_images, thumbnail_worker>>

SpecGenerator == GeneratorInit /\ [][GenerateThumbnail]_vars

\* --------------------------------------------------- ThumbnailWorkerThread
\* ThumbnailManager.__init__: a generator over an empty cache directory and a
\* worker thread that has not been started.
WorkerInit ==
    /\ NoRun
    /\ hamming_call = None
    /\ similarity_call = None
    /\ lone_group = None
    /\ max_cache_size \in 1..MaxCacheSize
    /\ memory_cache = <<>>
    /\ cache_access_times = <<>>
    /\ cache_files = {}
    /\ now = 0
    /\ readable_images \in SUBSET ThumbnailPaths
    /\ request_queue = <<>>
    /\ is_running = FALSE
    /\ worker_pc = "stopped"
    /\ current_request = None
    /\ thumbnail_signals = <<>>
    /\ accepted_requests = {}

\* The requests the worker has been handed so far: answered, taken or queued.
RequestsSoFar ==
    Len(thumbnail_signals) + Len(current_request) + Len(request_queue)

\* "request in self.request_queue".
InQueue(image_path) ==
    \E k \in 1..Len(request_queue) : request_queue[k] = image_path

\* QThread.start(): starts the thread unless it is running already.
start(at) == IF at = "stopped" THEN "started" ELSE at

\* ThumbnailWorkerThread.request_thumbnail, the whole of it under the mutex,
\* for a request that is not in the queue yet.
request_thumbnail(image_path) ==
    /\ ~InQueue(image_path)
    /\ request_queue' = Append(request_queue, image_path)
    /\ accepted_requests' = accepted_requests \cup {image_path}
    /\ worker_pc' = IF ~is_running THEN start(worker_pc) ELSE worker_pc

\* Some thread calls request_thumbnail.
RequestThumbnail ==
    /\ worker_pc # "none"
    /\ RequestsSoFar < MaxRequests
    /\ \E image_path \in ThumbnailPaths : request_thumbnail(image_path)
    /\ UNCHANGED <<run_state, hamming_call, similarity_call, lone_group,
                   thumbnail_cache, is_running, current_request,
                   thumbnail_signals>>

\* run, first statement.
WorkerBegin ==
    /\ worker_pc = "started"
    /\ is_running' = TRUE
    /\ worker_pc' = "loop"
    /\ UNCHANGED <<run_state, hamming_call, similarity_call, lone_group,
                   thumbnail_cache, request_queue, current_request,
                   thumbnail_signals, accepted_requests>>

\* run, under the mutex: the next request is taken off the queue.
WorkerTake ==
    /\ worker_pc = "loop"
    /\ request_queue # <<>>
    /\ current_request' = <<Head(request_queue)>>
    /\ request_queue' = Tail(request_queue)
    /\ worker_pc' = "generate"
    /\ UNCHANGED <<run_state, hamming_call, similarity_call, lone_group,
                   thumbnail_cache, is_running, thumbnail_signals,
                   accepted_requests>>

\* run, under the mutex: the queue is empty and the loop is left.
WorkerBreak ==
    /\ worker_pc = "loop"
    /\ request_queue = <<>>
    /\ worker_pc' = "after_loop"
    /\ UNCHANGED <<run_state, hamming_call, similarity_call, lone_group,
                   thumbnail_cache, request_queue, is_running, current_request,
                   thumbnail_signals, accepted_requests>>

\* run, outside the mutex: the thumbnail is generated and thumbnail_ready or
\* thumbnail_error is emitted for the image.
WorkerGenerate ==
    /\ worker_pc = "generate"
    /\ \E t \in {now, now + 1} :
         /\ t <= MaxTime
         /\ now' = t
         /\ LET image_path == current_request[1]
                after == generate_thumbnail(image_path, t)
            IN  /\ memory_cache' = after.memory_cache
                /\ cache_access_times' = after.cache_access_times
                /\ cache_files' = after.cache_files
                /\ thumbnail_signals' = Append(thumbnail_signals,
                      [signal |-> IF after.thumbnail # None
                                  THEN "thumbnail_ready" ELSE "thumbnail_error",
                       image_path |-> image_path])
    /\ current_request' = None
    /\ worker_pc' = "loop"
    /\ UNCHANGED <<run_state, hamming_call, similarity_call, lone_group,
                   max_cache_size, readable_images, request_queue, is_running,
                   accepted_requests>>

\* run, last statement, after which the thread finishes.
WorkerReturn ==
    /\ worker_pc = "after_loop"
    /\ is_running' = FALSE
    /\ worker_pc' = "stopped"
    /\ UNCHANGED <<run_state, hamming_call, similarity_call, lone_group,
                   thumbnail_cache, request_queue, current_request,
                   thumbnail_signals, accepted_requests>>

\* A step of the worker thread.
WorkerStep ==
    \/ WorkerBegin
    \/ WorkerTake
    \/ WorkerBreak
    \/ WorkerGenerate
    \/ WorkerReturn

NextWorker ==
    \/ RequestThumbnail
    \/ WorkerStep

\* The worker thread is scheduled as long as it has a step to take; nobody
\* has to make a request.
SpecWorker == WorkerInit /\ [][NextWorker]_vars /\ WF_vars(WorkerStep)

\* ------------------------------------- find_duplicates as a function
\* The inner loop of find_duplicates for the seed at index k, from index m
\* to the end of the mapping: <<group, assigned_images>> after it.
RECURSIVE InnerScan(_, _, _, _, _, _)
InnerScan(mapping, k, m, assigned, group, groups) ==
    IF m > Len(mapping) THEN <<group, assigned>>
    ELSE LET path1 == Keys(mapping)[k]
             hash1 == Value(mapping, k)
             path2 == Keys(mapping)[m]
             hash2 == Value(mapping, m)
         IN  IF ~AlreadyAssigned(path2, assigned)
                /\ DistanceWithin(hamming_distance(hash1, hash2), similarity_threshold)
             THEN InnerScan(mapping, k, m + 1, assigned \cup {path1, path2},
                            HashGroupWith(group, groups, path1, hash1, path2, hash2),
                            groups)
             ELSE InnerScan(mapping, k, m + 1, assigned, group, groups)

\* The outer loop of find_duplicates from index k to the end of the mapping.
RECURSIVE OuterScan(_, _, _, _)
OuterScan(mapping, k, assigned, groups) ==
    IF k > Len(mapping) THEN groups
    ELSE IF AlreadyAssigned(Keys(mapping)[k], assigned)
         THEN OuterScan(mapping, k + 1, assigned, groups)
         ELSE LET scanned == InnerScan(mapping, k, k + 1, assigned, None, groups)
              IN  OuterScan(mapping, k + 1, scanned[2],
                            IF KeepGroup(scanned[1])
                            THEN Append(groups, scanned[1]) ELSE groups)

\* What find_duplicates returns for a mapping when the flag stays clear.
find_duplicates(mapping) == OuterScan(mapping, 1, {}, <<>>)

\* ================================================================ claims
\* The paths of the members of a group, in order.
GroupPaths(group) == [k \in 1..Len(group.images) |-> group.images[k].path]

\* The member paths of a list of groups, concatenated in order.
RECURSIVE AllPaths(_)
AllPaths(groups) ==
    IF groups = <<>> THEN <<>>
    ELSE GroupPaths(Head(groups)) \o AllPaths(Tail(groups))

NoRepeat(s) == \A a, b \in 1..Len(s) : a # b => s[a] # s[b]

IsHashGroup(group) == group.algorithm \in {"dhash", "ahash"}
IsCnnGroup(group) == group.algorithm = "cnn"

\* The groups of one pass within a result list.
HashGroupsOf(groups) == SelectSeq(groups, IsHashGroup)
CnnGroupsOf(groups) == SelectSeq(groups, IsCnnGroup)

\* The group under construction in an inner loop, as a list of at most one.
BeingBuilt ==
    IF pc \in {"find_inner", "cnn_inner"} /\ current_group # None
    THEN <<current_group>> ELSE <<>>

InScan == pc \in {"find_outer", "find_inner", "cnn_outer", "cnn_inner"}

\* C1: every group that find_duplicates or find_cnn_duplicates has put in its
\* output, and every group detect_duplicates returns, has at least two
\* members, whatever the input, the thresholds and the moment the
\* cancellation flag is set.
C1_GroupsHaveTwoMembers ==
    \A g \in Range(duplicate_groups) \cup Range(hash_groups)
             \cup Range(cnn_groups) \cup Range(all_duplicate_groups) :
        get_size(g) >= 2

\* C1 witness: a run cancelled inside the inner loop of the feature pass has
\* returned a hash group and a feature-based group.
C1_Witness ==
    /\ pc = "done"
    /\ cancelled_at = "cnn_inner"
    /\ hash_groups # <<>>
    /\ CnnGroupsOf(all_duplicate_groups) # <<>>

\* C2: within one pass no path is a member of two groups or twice a member
\* of one group, counting the group under construction; and a path that is
\* assigned when it is the seed of an inner scan was assigned by that scan,
\* as the first member of the group under construction.
C2_NoPathAssignedTwice ==
    /\ InScan => NoRepeat(AllPaths(duplicate_groups \o BeingBuilt))
    /\ NoRepeat(AllPaths(hash_groups))
    /\ NoRepeat(AllPaths(cnn_groups))
    /\ NoRepeat(AllPaths(HashGroupsOf(all_duplicate_groups)))
    /\ NoRepeat(AllPaths(CnnGroupsOf(all_duplicate_groups)))
    /\ pc = "find_inner" /\ Keys(hashes)[i] \in assigned_images
          => current_group # None /\ GroupPaths(current_group)[1] = Keys(hashes)[i]
    /\ pc = "cnn_inner" /\ Keys(cnn_features)[i] \in assigned_images
          => current_group # None
             /\ GroupPaths(current_group)[1] = Keys(cnn_features)[i]

\* C2 witness: a hash pass that returned two groups after skipping a path
\* that was already a member of the first one.
C2_Witness ==
    /\ pc = "done"
    /\ Len(hash_groups) = 2
    /\ \E k \in 1..Len(hashes) :
          /\ Keys(hashes)[k] \in Range(GroupPaths(hash_groups[1]))
          /\ Keys(hashes)[k] # GroupPaths(hash_groups[1])[1]
          /\ k < Len(hashes)

\* C3 (as claimed): when the flag interrupts the inner loop of a scan,
\* the output list of the scan stays as it was: the group under construction
\* for the interrupted seed is not appended and so is not returned.
C3_InterruptedGroupNotReturned ==
    [][ /\ (pc = "find_inner" /\ _cancelled /\ j <= Len(hashes))
             => duplicate_groups' = duplicate_groups
        /\ (pc = "cnn_inner" /\ _cancelled /\ j <= Len(cnn_features))
             => duplicate_groups' = duplicate_groups ]_vars

\* The flag was set before the first loop check of any grouping scan.
CancelledBeforeAnyScan ==
    \/ cancelled_at \in {"idle", "generate_hashes", "phase1_group"}
    \/ /\ cancelled_at \in {"phase2", "generate_cnn_features", "phase2_group"}
       /\ hashes = <<>>

LastSignal == signals[Len(signals)]
Emitted(name) == \E k \in 1..Len(signals) : signals[k].signal = name

\* C4: a run whose flag was set before any grouping scan began, before or
\* after the fingerprints were generated, produces no group and reports none.
C4_CancelledBeforeGroupingNoGroups ==
    CancelledBeforeAnyScan =>
        /\ duplicate_groups = <<>>
        /\ all_duplicate_groups = <<>>
        /\ pc = "done" => LastSignal.groups = <<>>

\* C4 witness: the flag was set between generate_hashes and find_duplicates
\* in a run whose hashes hold a pair within the threshold.
C4_Witness ==
    /\ pc = "done"
    /\ cancelled_at = "phase1_group"
    /\ \E a, b \in 1..Len(hashes) :
          /\ a < b
          /\ DistanceWithin(hamming_distance(Value(hashes, a), Value(hashes, b)),
                            similarity_threshold)

\* C5 (as claimed): a run whose flag was set before detect_duplicates
\* returned emits neither the progress value 100 nor detection_completed.
C5_CancelledRunNotCompleted ==
    cancelled_at \notin {"never", "finalize"} =>
        \A k \in 1..Len(signals) :
            /\ signals[k].signal # "detection_completed"
            /\ signals[k].signal = "progress_update" => signals[k].percent # 100

\* C6 (as claimed): a finished run over a non-empty path list none of whose
\* files can be hashed has emitted detection_error and not detection_completed.
C6_NoHashesIsAnError ==
    /\ pc = "done"
    /\ image_paths # <<>>
    /\ \A p \in Range(image_paths) : file_hash[p] = None
    => Emitted("detection_error") /\ ~Emitted("detection_completed")

\* C7: a finished run over an empty path list has ended with
\* detection_completed carrying no group and a processed-image count of 0,
\* and has emitted no detection_error.
C7_EmptyInputCompletes ==
    pc = "done" /\ image_paths = <<>> =>
        /\ LastSignal.signal = "detection_completed"
        /\ LastSignal.groups = <<>>
        /\ LastSignal.statistics.total_images_processed = 0
        /\ LastSignal.statistics.total_groups_found = 0
        /\ ~Emitted("detection_error")

\* C7 witness: a finished run over an empty path list.
C7_Witness == pc = "done" /\ image_paths = <<>> /\ Len(signals) = 4

\* The hash mapping of the input with the paths that cannot be hashed
\* removed.
RECURSIVE HashableMapping(_)
HashableMapping(paths) ==
    IF paths = <<>> THEN <<>>
    ELSE (IF file_hash[Head(paths)] # None
          THEN << <<Head(paths), file_hash[Head(paths)]>> >> ELSE <<>>)
         \o HashableMapping(Tail(paths))

Phase1Pcs == {"idle", "generate_hashes", "phase1_group", "find_outer", "find_inner"}

\* C8: with the flag clear until generate_hashes has returned, hashes holds
\* exactly the paths that can be hashed, in input order; with the flag clear
\* until find_duplicates has returned, the hash groups are those
\* find_duplicates returns for the input without the failing paths; and a
\* finished run that hashed at least one path ended with
\* detection_completed and without detection_error.
C8_FailedHashesAreSkipped ==
    /\ pc \notin {"idle", "generate_hashes"}
       /\ cancelled_at \notin {"idle", "generate_hashes"}
          => hashes = HashableMapping(image_paths)
    /\ pc \notin Phase1Pcs /\ cancelled_at \notin Phase1Pcs
          => /\ hash_groups = find_duplicates(HashableMapping(image_paths))
             /\ HashGroupsOf(all_duplicate_groups) = hash_groups
    /\ pc = "done" /\ hashes # <<>>
          => /\ LastSignal.signal = "detection_completed"
             /\ ~Emitted("detection_error")

\* C8 witness: a finished, never cancelled run with a hash group whose
\* members lie on both sides of a path that could not be hashed.
C8_Witness ==
    /\ pc = "done"
    /\ cancelled_at = "never"
    /\ \E g \in Range(hash_groups) :
          \E a, c \in Range(GroupPaths(g)) :
              \E b \in Range(image_paths) :
                  a < b /\ b < c /\ file_hash[b] = None

\* C9: after phase 2 raised, detect_duplicates holds exactly the groups of
\* phase 1, in order, and the run ends with detection_completed carrying
\* them and without detection_error.
C9_Phase2ErrorKeepsPhase1Groups ==
    phase2_raised =>
        /\ all_duplicate_groups = hash_groups
        /\ pc = "done" =>
              /\ LastSignal.signal = "detection_completed"
              /\ LastSignal.groups = hash_groups
              /\ ~Emitted("detection_error")

\* C9 witness: phase 2 raised after the feature pass had finished a group,
\* in a run whose phase 1 returned a group.
C9_Witness ==
    /\ pc = "done"
    /\ phase2_raised
    /\ hash_groups # <<>>
    /\ duplicate_groups # <<>>
    /\ IsCnnGroup(duplicate_groups[1])

\* generate_cnn_features has run to the end of its loop with the flag clear.
FeaturesGenerated ==
    /\ use_cnn
    /\ \/ pc \in {"phase2_group", "cnn_outer", "cnn_inner"}
       \/ pc \in {"finalize", "done"} /\ ~phase2_raised
    /\ cancelled_at \notin Phase1Pcs \cup {"phase2", "generate_cnn_features"}

\* C10: the paths handed to extract_features are always a prefix of the
\* input path list, and the whole list once generate_cnn_features has run
\* to its end, whichever paths phase 1 could hash; cnn_features then holds
\* every path with a feature vector, hashed or not.
C10_FeaturesAttemptedForEveryPath ==
    /\ Len(cnn_attempted) <= Len(image_paths)
    /\ cnn_attempted = SubSeq(image_paths, 1, Len(cnn_attempted))
    /\ FeaturesGenerated =>
          /\ cnn_attempted = image_paths
          /\ Range(Keys(cnn_features)) =
                {p \in Range(image_paths) : file_features[p] # None}

\* C10 witness: a finished run in which a path without a hash is a member of
\* a feature-based group and a path without a feature vector is a member of
\* a hash group.
C10_Witness ==
    /\ pc = "done"
    /\ \E p \in Range(AllPaths(cnn_groups)) : file_hash[p] = None
    /\ \E q \in Range(AllPaths(hash_groups)) : file_features[q] = None

\* ------------------------------------------------------------------ C11
\* The progress percentages emitted so far, in emission order.
ProgressIndices == {k \in 1..Len(signals) : signals[k].signal = "progress_update"}

\* C11: the progress percentages one run emits never decrease, and a
\* detection_completed signal comes right after a progress_update of 100, which
\* is the last progress value emitted before it.
C11_ProgressMonotoneAndFinal ==
    /\ \A k1, k2 \in ProgressIndices :
          k1 < k2 => signals[k1].percent <= signals[k2].percent
    /\ \A k \in 1..Len(signals) :
          signals[k].signal = "detection_completed"
          => /\ k > 1
             /\ signals[k - 1].signal = "progress_update"
             /\ signals[k - 1].percent = 100
             /\ \A k1 \in ProgressIndices : k1 < k => signals[k1].percent <= 100

\* A run that went through both phases and ended with detection_completed
\* after the progress values 0, 90 and 100.
C11_Witness ==
    /\ pc = "done"
    /\ use_cnn
    /\ all_duplicate_groups # <<>>
    /\ Emitted("detection_completed")
    /\ Cardinality(ProgressIndices) = 3

Red == <<255, 0, 0>>
Blue == <<0, 0, 255>>

\* Three files holding the same solid red image followed by one solid blue
\* image, hashed by dhash.
ThreeRedOneBlue ==
    /\ ~use_cnn
    /\ Len(image_paths) = 4
    /\ \A k \in 1..3 : file_hash[k] = dhash(SolidPixels(Red, HashSize), HashSize)
    /\ file_hash[4] = dhash(SolidPixels(Blue, HashSize), HashSize)

\* C13: three identical solid-red images and one solid-blue image, dhash,
\* threshold 0: the run returns exactly one group, of size 3, holding the red
\* images, and the blue image is in no group.
C13_RedGroupExcludesBlue ==
    /\ ThreeRedOneBlue
    /\ similarity_threshold = 0
    /\ pc = "done"
    /\ cancelled_at = "never"
    => /\ Len(all_duplicate_groups) = 1
       /\ GroupPaths(all_duplicate_groups[1]) = <<1, 2, 3>>
       /\ 4 \notin Range(AllPaths(all_duplicate_groups))

\* ------------------------------------------------------------------ C14
\* The bit of weight 2^b of the k-th hex digit of h.
HexBit(h, k, b) == (h[k] \div (2 ^ b)) % 2

\* The bit positions in which two fingerprints of the same length differ.
DifferingBits(h1, h2) ==
    {pos \in (1..Len(h1)) \X (0..3) :
        HexBit(h1, pos[1], pos[2]) # HexBit(h2, pos[1], pos[2])}

\* C14: for two hex fingerprints of the same length, W = 4 * length bits wide,
\* hamming_distance returns the number of bit positions in which they differ,
\* a value in 0..W that is 0 for identical fingerprints and the same in either
\* argument order.
C14_HammingCountsDifferingBits ==
    /\ hamming_call # None
    /\ "distance" \in DOMAIN hamming_call
    /\ Len(hamming_call.hash1) = Len(hamming_call.hash2)
    => LET hash1 == hamming_call.hash1
           hash2 == hamming_call.hash2
           d == hamming_call.distance
       IN  /\ d = Cardinality(DifferingBits(hash1, hash2))
           /\ 0 <= d
           /\ d <= 4 * Len(hash1)
           /\ (hash1 = hash2 => d = 0)
           /\ d = hamming_distance(hash2, hash1)

\* A returned call on two fingerprints that differ in every one of their bits.
C14_Witness ==
    /\ hamming_call # None
    /\ "distance" \in DOMAIN hamming_call
    /\ Len(hamming_call.hash1) = MaxHexLen
    /\ Len(hamming_call.hash2) = MaxHexLen
    /\ hamming_call.distance = 4 * MaxHexLen

\* ------------------------------------------------------------------ C15
\* Integer thresholds a detector may be constructed with.
ThresholdsTried == -2..64

\* The hash groups that exist in the current state, finished or not.
HashGroupsInState ==
    Range(HashGroupsOf(all_duplicate_groups)) \cup Range(hash_groups)
    \cup (IF pc \in {"find_outer", "find_inner"}
          THEN Range(duplicate_groups) \cup Range(BeingBuilt) ELSE {})

\* The inner loop of find_duplicates is about to compare two fingerprints.
AboutToCompareHashes == pc = "find_inner" /\ j <= Len(hashes)

\* C15: for fingerprints of different lengths hamming_distance returns the
\* infinity value, which is within no integer threshold, and the hash grouping
\* pass never puts such a pair into one group as seed and member.
C15_DifferentLengthsNeverGrouped ==
    /\ AboutToCompareHashes /\ Len(Value(hashes, i)) # Len(Value(hashes, j))
       => LET distance == hamming_distance(Value(hashes, i), Value(hashes, j))
          IN  /\ distance = Infinity
              /\ \A threshold \in ThresholdsTried :
                    ~DistanceWithin(distance, threshold)
    /\ \A group \in HashGroupsInState :
         \A k \in 1..Len(group.images) :
            Len(group.images[k].hash) = Len(group.images[1].hash)

\* An uncancelled run ended with a group whose seed has the fingerprint "0",
\* while a file with the fingerprint "00", the same number written with another
\* length, is in no group.
C15_Witness ==
    /\ pc = "done"
    /\ cancelled_at = "never"
    /\ \E group \in Range(all_duplicate_groups) :
         /\ IsHashGroup(group)
         /\ \E k \in 1..Len(hashes) :
              /\ Len(Value(hashes, k)) # Len(group.images[1].hash)
              /\ HexToInt(Value(hashes, k)) = HexToInt(group.images[1].hash)
              /\ Keys(hashes)[k] \notin Range(AllPaths(all_duplicate_groups))

\* ------------------------------------------------------------------ C16
\* A vector of norm zero.
Degenerate(features) == Dot(features, features) = 0

\* C16: compute_similarity returns 0.0 when either vector is degenerate or the
\* computation fails (here: the shapes differ), so such a pair is a match for
\* no threshold above 0.
C16_DegenerateVectorNeverMatches ==
    /\ similarity_call # None
    /\ "similarity" \in DOMAIN similarity_call
    /\ \/ Degenerate(similarity_call.features1)
       \/ Degenerate(similarity_call.features2)
       \/ Len(similarity_call.features1) # Len(similarity_call.features2)
    => /\ similarity_call.similarity = 0
       /\ (similarity_call.threshold > 0 => ~similarity_call.match)

\* ------------------------------------------------------------------ C17
\* C17: total_duplicate_images of the final statistics is the number of
\* distinct input images that are a member of at least one returned group,
\* with or without feature matching.
C17_TotalCountsDistinctImages ==
    pc = "done"
    => LastSignal.statistics.total_duplicate_images
         = Cardinality(Range(AllPaths(LastSignal.groups)) \cap Range(image_paths))

\* ------------------------------------------------------------------ C18
\* C18: the final statistics report the number of images that were
\* fingerprinted, which is below the number of images supplied when some image
\* could not be decoded (checked for phase 1 of runs that hashed to the end).
C18_StatisticsCountFingerprintedImages ==
    /\ pc = "done"
    /\ cancelled_at \notin Phase1Pcs
    => /\ LastSignal.statistics.total_images_processed = Len(hashes)
       /\ ((\E path \in Range(image_paths) : hash_func(path) = None)
           => LastSignal.statistics.total_images_processed < Len(image_paths))

\* ------------------------------------------------------------------ C19
\* How far run has come, counting an inner loop before the outer loop it
\* returns to.
Stage(at) ==
    CASE at = "idle" -> 0
      [] at = "generate_hashes" -> 1
      [] at = "phase1_group" -> 2
      [] at = "find_inner" -> 3
      [] at = "find_outer" -> 4
      [] at = "phase2" -> 5
      [] at = "generate_cnn_features" -> 6
      [] at = "phase2_group" -> 7
      [] at = "cnn_inner" -> 8
      [] at = "cnn_outer" -> 9
      [] at = "finalize" -> 10
      [] at = "done" -> 11

\* C19: a step of a loop is its check of the flag together with the body that
\* follows, so the one fingerprint computation or comparison that may still
\* begin after the flag is set is the step in progress.  Every step that
\* starts with the flag set computes no fingerprint, compares no pair and
\* leaves the loop or function it is in for a later stage of run: what is left
\* to do is at most one step per stage, whatever the number of input images.
C19_NoLoopIterationAfterFlag ==
    [][_cancelled
       => /\ Stage(pc') > Stage(pc)
          /\ hashes' = hashes
          /\ cnn_features' = cnn_features
          /\ cnn_attempted' = cnn_attempted
          /\ assigned_images' \subseteq assigned_images]_vars

\* A run ended after its flag was set inside generate_hashes while two or more
\* hashable files were still waiting.
C19_Witness ==
    /\ pc = "done"
    /\ cancelled_at = "generate_hashes"
    /\ Cardinality({path \in Range(image_paths) : hash_func(path) # None})
         >= Len(hashes) + 2

\* ------------------------------------------------------------------ C20
\* The fingerprint an image entry carries: its feature vector in a
\* feature-based group, its hash otherwise.
Fingerprint(image_info) ==
    IF "cnn_features" \in DOMAIN image_info
    THEN image_info.cnn_features
    ELSE image_info.hash

\* C20: after any sequence of add_image calls the representative fingerprint
\* of the group is the fingerprint of the first member added (so that no later
\* add_image changes it), for the entries of hash groups and of feature-based
\* groups alike.
C20_RepresentativeIsFirstFingerprint ==
    lone_group # None /\ get_size(lone_group) >= 1
    => lone_group.representative_hash = Fingerprint(lone_group.images[1])

\* ------------------------------------------------------------------ C21
\* The cache keys held in a dict.
KeySet(d) == {d[k][1] : k \in 1..Len(d)}

\* The memory cache holds at most max_cache_size entries, each with an access
\* time.
CacheWithinSize ==
    /\ Len(memory_cache) <= max_cache_size
    /\ KeySet(memory_cache) = KeySet(cache_access_times)
    /\ Len(cache_access_times) = Len(memory_cache)

\* An entry that leaves the memory cache had an access time no later than
\* that of every entry of the cache.
EvictsOldestAccess ==
    \A gone \in KeySet(memory_cache) \ KeySet(memory_cache') :
        \A k, k2 \in 1..Len(cache_access_times) :
            cache_access_times[k][1] = gone
            => cache_access_times[k][2] <= cache_access_times[k2][2]

\* C21: after any sequence of generate_thumbnail calls on a generator with
\* max_cache_size >= 1 the memory cache holds at most max_cache_size entries,
\* and an entry evicted from the full cache is one with the oldest access time.
C21_CacheBoundedAndLru ==
    [](max_cache_size >= 1 => CacheWithinSize) /\ [][EvictsOldestAccess]_vars

\* A full cache of MaxCacheSize entries from which a thumbnail that is on disk
\* has been evicted, while the entry inserted first is still there because a
\* later hit made it the newest.
C21_Witness ==
    /\ max_cache_size = MaxCacheSize
    /\ Len(memory_cache) = max_cache_size
    /\ \E cache_key \in cache_files : ~DictHas(memory_cache, cache_key)
    /\ DictHas(memory_cache, get_cache_key(1))
    /\ cache_files = {get_cache_key(image_path) : image_path \in ThumbnailPaths}
    /\ \A k \in 1..Len(cache_access_times) :
         cache_access_times[k][2] <= Value(cache_access_times, 1)
    /\ Keys(cache_access_times)[1] = get_cache_key(1)

\* ------------------------------------------------------------------ C22
\* Every group that exists in the current state, finished or under
\* construction.
GroupsInState ==
    Range(all_duplicate_groups) \cup Range(hash_groups) \cup Range(cnn_groups)
    \cup (IF pc \in {"find_outer", "find_inner", "cnn_outer", "cnn_inner"}
          THEN Range(duplicate_groups) \cup Range(BeingBuilt) ELSE {})

\* The member passes the pairwise test of the group's pass against the seed.
PassesTestAgainst(seed, member, group) ==
    IF IsCnnGroup(group)
    THEN /\ compute_similarity(seed.cnn_features, member.cnn_features)
              >= cnn_similarity_threshold
         /\ member.similarity_to_group
              = compute_similarity(seed.cnn_features, member.cnn_features)
    ELSE DistanceWithin(hamming_distance(seed.hash, member.hash),
                        similarity_threshold)

\* C22: in every group the first member is the seed, the member that comes
\* first in the input, and every other member passes the pairwise test against
\* the seed's fingerprint: distance <= similarity_threshold in a hash group,
\* similarity >= cnn_similarity_threshold in a feature-based group.
C22_MembersMatchTheSeed ==
    \A group \in GroupsInState :
        \A k \in 2..Len(group.images) :
            /\ group.images[1].path < group.images[k].path
            /\ PassesTestAgainst(group.images[1], group.images[k], group)

\* A run returned a hash group of three or more members, one of which differs
\* from the seed.
C22_Witness ==
    /\ pc = "done"
    /\ \E group \in Range(all_duplicate_groups) :
         /\ IsHashGroup(group)
         /\ Len(group.images) >= 3
         /\ \E k \in 2..Len(group.images) :
              group.images[k].hash # group.images[1].hash

\* ------------------------------------------------------------------ C23
\* The first three files are hashed, the second and the third are both within
\* the threshold of the first, and farther from each other than the threshold.
TwoNeighboursApart ==
    /\ ~use_cnn
    /\ Len(image_paths) >= 3
    /\ \A path \in 1..3 : hash_func(path) # None
    /\ DistanceWithin(hamming_distance(hash_func(1), hash_func(2)),
                      similarity_threshold)
    /\ DistanceWithin(hamming_distance(hash_func(1), hash_func(3)),
                      similarity_threshold)
    /\ ~DistanceWithin(hamming_distance(hash_func(2), hash_func(3)),
                       similarity_threshold)

\* C23: a group need not be a clique under the threshold relation.  On an
\* input whose second and third file are both within the threshold of the
\* first but not of each other, an uncancelled run returns all three in the
\* group of the first.
C23_GroupNeedNotBeClique ==
    /\ TwoNeighboursApart
    /\ pc = "done"
    /\ cancelled_at = "never"
    => /\ all_duplicate_groups # <<>>
       /\ {1, 2, 3} \subseteq Range(GroupPaths(all_duplicate_groups[1]))

\* A returned group with two members that are farther from each other than
\* the threshold.
C23_Witness ==
    /\ pc = "done"
    /\ cancelled_at = "never"
    /\ \E group \in Range(all_duplicate_groups) :
         /\ IsHashGroup(group)
         /\ \E k1, k2 \in 2..Len(group.images) :
              ~DistanceWithin(hamming_distance(group.images[k1].hash,
                                               group.images[k2].hash),
                              similarity_threshold)

\* ------------------------------------------------------------------ C24
\* The k-th group of the list, counting from 0, has the identifier prefix_k.
NumberedInOrder(groups, prefix) ==
    \A k \in 1..Len(groups) : groups[k].group_id = <<prefix, k - 1>>

\* C24: within one grouping pass the k-th group of the list, counting from 0,
\* has the identifier with index k (group_k in the hash pass, cnn_group_k in
\* the feature pass), while the pass runs and in what it returns; the two
\* passes are numbered independently of each other.
C24_IdentifiersFollowListOrder ==
    /\ NumberedInOrder(hash_groups, "group_")
    /\ NumberedInOrder(cnn_groups, "cnn_group_")
    /\ NumberedInOrder(HashGroupsOf(all_duplicate_groups), "group_")
    /\ NumberedInOrder(CnnGroupsOf(all_duplicate_groups), "cnn_group_")
    /\ pc \in {"find_outer", "find_inner"}
       => NumberedInOrder(duplicate_groups \o BeingBuilt, "group_")
    /\ pc \in {"cnn_outer", "cnn_inner"}
       => NumberedInOrder(duplicate_groups \o BeingBuilt, "cnn_group_")

\* A run returned group_0 of the hash pass followed by cnn_group_0 of the
\* feature pass.
C24_Witness ==
    /\ pc = "done"
    /\ Len(all_duplicate_groups) = 2
    /\ all_duplicate_groups[1].group_id = <<"group_", 0>>
    /\ all_duplicate_groups[2].group_id = <<"cnn_group_", 0>>

\* ------------------------------------------------------------------ C25
\* The finished feature-based groups of the current state.
FinishedCnnGroups ==
    Range(CnnGroupsOf(all_duplicate_groups)) \cup Range(cnn_groups)
    \cup (IF pc \in {"cnn_outer", "cnn_inner"} THEN Range(duplicate_groups) ELSE {})

\* The seed-to-member similarities recorded with the non-seed members.
MemberSimilarities(group) ==
    [k \in 1..(Len(group.images) - 1) |-> group.images[k + 1].similarity_to_group]

\* C25: the score of every finished feature-based group is the arithmetic
\* mean (to the thousandth below) of the similarities of its non-seed members
\* to the seed, and its confidence label is the one of that score: high from
\* 0.95, medium from 0.85, low below.
C25_ScoreIsMeanAndLabelFollows ==
    \A group \in FinishedCnnGroups :
        LET similarities == MemberSimilarities(group)
            score == group.similarity_score
        IN  /\ Len(similarities) >= 1
            /\ Len(similarities) * score <= SeqSum(similarities)
            /\ SeqSum(similarities) < Len(similarities) * (score + 1)
            /\ group.confidence_level =
                 (IF score >= 950 THEN "high"
                  ELSE IF score >= 850 THEN "medium" ELSE "low")

\* A returned feature-based group whose first match had similarity 1.0 and
\* whose mean is lower, in another confidence band.
C25_Witness ==
    /\ pc = "done"
    /\ \E group \in Range(cnn_groups) :
         /\ Len(group.images) = 3
         /\ group.images[2].similarity_to_group = SimScale
         /\ group.similarity_score < 950
         /\ group.confidence_level = "medium"

\* ------------------------------------------------------------------ C26
\* The entries of a mapping whose path is in none of the groups.
Ungrouped(mapping, groups) ==
    {k \in 1..Len(mapping) : Keys(mapping)[k] \notin Range(AllPaths(groups))}

\* find_duplicates returned with the flag clear throughout.
HashPassCompleted ==
    /\ pc \notin Phase1Pcs \cup {"off"}
    /\ cancelled_at \notin Phase1Pcs

\* find_cnn_duplicates returned with the flag clear throughout.
CnnPassCompleted ==
    /\ pc \in {"finalize", "done"}
    /\ use_cnn
    /\ ~phase2_raised
    /\ cancelled_at \in {"never", "finalize"}

\* C26: after a grouping pass that ran to its end with the flag clear, any two
\* images the pass left outside every group fail the pairwise test against
\* each other: their fingerprints are farther apart than the threshold, their
\* feature vectors less similar than the feature threshold.
C26_UngroupedImagesDoNotMatch ==
    /\ HashPassCompleted
       => \A k1, k2 \in Ungrouped(hashes, hash_groups) :
            k1 # k2
            => ~DistanceWithin(hamming_distance(Value(hashes, k1), Value(hashes, k2)),
                               similarity_threshold)
    /\ CnnPassCompleted
       => \A k1, k2 \in Ungrouped(cnn_features, cnn_groups) :
            k1 # k2
            => compute_similarity(Value(cnn_features, k1), Value(cnn_features, k2))
                 < cnn_similarity_threshold

\* An uncancelled run ended with a group and with two hashed images outside
\* every group.
C26_Witness ==
    /\ pc = "done"
    /\ cancelled_at = "never"
    /\ hash_groups # <<>>
    /\ Cardinality(Ungrouped(hashes, hash_groups)) >= 2

\* ------------------------------------------------------------------ C27
\* The groups of one pass are in the order of their seeds' input positions,
\* and within each group the positions increase from the seed on.  A path is
\* its own input position.
InInputOrder(groups) ==
    /\ \A g1, g2 \in 1..Len(groups) :
          g1 < g2 => groups[g1].images[1].path < groups[g2].images[1].path
    /\ \A g \in 1..Len(groups) :
          \A k1, k2 \in 1..Len(groups[g].images) :
              k1 < k2 => groups[g].images[k1].path < groups[g].images[k2].path

\* C27: the output of a grouping pass follows the input order: groups are in
\* the order of their seeds' positions, within a group the seed comes first
\* and the other members follow in increasing position, all after the seed.
C27_OutputFollowsInputOrder ==
    /\ InInputOrder(hash_groups)
    /\ InInputOrder(cnn_groups)
    /\ InInputOrder(HashGroupsOf(all_duplicate_groups))
    /\ InInputOrder(CnnGroupsOf(all_duplicate_groups))
    /\ InScan => InInputOrder(duplicate_groups \o BeingBuilt)

\* A run returned two hash groups that interleave in the input: a member of
\* the first group comes after the seed of the second.
C27_Witness ==
    /\ pc = "done"
    /\ Len(hash_groups) = 2
    /\ \E k \in 2..Len(hash_groups[1].images) :
         hash_groups[1].images[k].path > hash_groups[2].images[1].path

\* ------------------------------------------------------------------ C28
\* The positions of the terminal notifications among the signals.
TerminalIndices ==
    {k \in 1..Len(signals) :
        signals[k].signal \in {"detection_completed", "detection_error"}}

\* C28: a run emits no terminal notification before it ends and exactly one,
\* detection_completed or detection_error, when it has ended; nothing, in
\* particular no progress update, is emitted after it.
C28_ExactlyOneTerminalSignal ==
    /\ Cardinality(TerminalIndices) = (IF pc = "done" THEN 1 ELSE 0)
    /\ \A k \in TerminalIndices : k = Len(signals)

\* A run that failed while it finalised its results: progress 90, then
\* detection_error and nothing else.
C28_Witness ==
    /\ pc = "done"
    /\ LastSignal.signal = "detection_error"
    /\ hash_groups # <<>>
    /\ signals[Len(signals) - 1] = [signal |-> "progress_update", percent |-> 90]

\* ------------------------------------------------------------------ C29
\* The flag was set before the call in progress began and reset has not been
\* called since.
CancelledBeforeTheCall == _cancelled /\ cancelled_at = "idle"

\* C29: only cancel_detection and reset change the cancellation flag, the
\* first to set it and the second to clear it; a call of detect_duplicates
\* that begins with the flag set finds no hashes, no features and no groups,
\* and returns no groups, as long as reset is not called.
C29_FlagChangesOnlyByCancelAndReset ==
    /\ [](CancelledBeforeTheCall =>
            /\ hashes = <<>>
            /\ cnn_features = <<>>
            /\ all_duplicate_groups = <<>>
            /\ \A k \in 1..Len(signals) :
                 signals[k].signal = "detection_completed"
                     => signals[k].groups = <<>>)
    /\ [][/\ (~_cancelled /\ _cancelled') => cancel_detection
          /\ (_cancelled /\ ~_cancelled') => reset]_vars

\* The first call was cancelled late enough to return groups; the second call
\* on the same detector, over the same files, has returned none.
C29_Witness ==
    /\ run_number = 2
    /\ pc = "done"
    /\ CancelledBeforeTheCall
    /\ previous_groups # <<>>
    /\ Emitted("detection_completed")

\* ------------------------------------------------------------------ C30
\* The notifications emitted for an image so far.
Served(image_path) ==
    Cardinality({k \in 1..Len(thumbnail_signals) :
                    thumbnail_signals[k].image_path = image_path})

\* C30: whenever a request for an image is in the queue, thumbnail_ready or
\* thumbnail_error is emitted for that image later on.
C30_AcceptedRequestIsProcessed ==
    \A image_path \in ThumbnailPaths : \A n \in 0..MaxRequests :
        (InQueue(image_path) /\ Served(image_path) = n)
            ~> (Served(image_path) > n)

\* The worker has returned and a request is left in the queue.
C30_RequestLeftBehind ==
    /\ worker_pc = "stopped"
    /\ ~is_running
    /\ request_queue # <<>>

====
